---- MODULE Spec2Model ----
(***************************************************************************)
(* Model of the StrongR registration page (src/src/App.tsx): the App       *)
(* component's state, the rank-preview effect, the form controls and the   *)
(* onSubmit handler, with every await as a separate step.                  *)
(*                                                                         *)
(* Text that the code parses or trims (name, age, country, time) is a      *)
(* sequence of one-character strings; text the code only passes on         *)
(* (error messages, response bodies, opaque QR fields) is a TLA+ string.   *)
(* A JavaScript value is a record [t |-> type tag, v |-> integer].         *)
(***************************************************************************)
EXTENDS Integers, Sequences, FiniteSets, TLC

VARIABLES qp, step, submitting, error, rankPreview, form, ageInput,
          me, lbCountry, lbGlobal, mounted, effects, regs, sent, lastResult,
          view

vars == <<qp, step, submitting, error, rankPreview, form, ageInput,
          me, lbCountry, lbGlobal, mounted, effects, regs, sent, lastResult,
          view>>

\* ---------------------------------------------------------------- bounds
MaxEffectRuns == 2
MaxSubmits == 2
MaxRank == 125
MaxRows == 2

\* ------------------------------------------------------ JavaScript values
Undefined == <<"undefined">>
JsNull == [t |-> "null", v |-> 0]
JsUndefined == [t |-> "undefined", v |-> 0]
JsNaN == [t |-> "NaN", v |-> 0]
JsNum(n) == [t |-> "number", v |-> n]
JsStr == [t |-> "string", v |-> 0]

Digits == {"0", "1", "2", "3", "4", "5", "6", "7", "8", "9"}
Whitespace == {" "}

DigitVal(c) ==
  CASE c = "0" -> 0 [] c = "1" -> 1 [] c = "2" -> 2 [] c = "3" -> 3
    [] c = "4" -> 4 [] c = "5" -> 5 [] c = "6" -> 6 [] c = "7" -> 7
    [] c = "8" -> 8 [] c = "9" -> 9

RECURSIVE TrimStart(_)
TrimStart(s) ==
  IF s # <<>> /\ Head(s) \in Whitespace THEN TrimStart(Tail(s)) ELSE s

RECURSIVE TrimEnd(_)
TrimEnd(s) ==
  IF s # <<>> /\ s[Len(s)] \in Whitespace
    THEN TrimEnd(SubSeq(s, 1, Len(s) - 1))
    ELSE s

\* String.prototype.trim
Trim(s) == TrimEnd(TrimStart(s))

AllDigits(s) == s # <<>> /\ \A i \in 1..Len(s) : s[i] \in Digits

RECURSIVE DecimalValue(_)
DecimalValue(s) ==
  IF s = <<>> THEN 0
  ELSE 10 * DecimalValue(SubSeq(s, 1, Len(s) - 1)) + DigitVal(s[Len(s)])

\* Number(string) on text made of digits, "-", blanks and letters: blanks
\* are trimmed, the empty text is 0, an optionally signed run of digits is
\* its value and anything else is NaN.
StringToNumber(s) ==
  LET u == Trim(s) IN
    IF u = <<>> THEN JsNum(0)
    ELSE IF AllDigits(u) THEN JsNum(DecimalValue(u))
    ELSE IF Head(u) = "-" /\ AllDigits(Tail(u)) THEN JsNum(0 - DecimalValue(Tail(u)))
    ELSE JsNaN

\* ------------------------------------------------------ query parameters
CountryParams == {Undefined, <<>>, <<"U", "S">>}
TimeParams == {Undefined, <<>>, <<"0">>, <<"-", "5">>, <<"a", "b">>, <<"1", "2">>}

\* useQueryParams: the mapping read once from window.location.search; every
\* time with a country and every country with a positive time
QueryParams ==
  [event : {"e1"}, device : {"d1"}, country : {<<"U", "S">>}, time : TimeParams,
   t : {"t1"}, nonce : {"n1"}, sig : {"s1"}]
  \cup
  [event : {"e1"}, device : {"d1"}, country : CountryParams, time : {<<"1", "2">>},
   t : {"t1"}, nonce : {"n1"}, sig : {"s1"}]

\* a string is falsy when it is missing or empty
Falsy(s) == s = Undefined \/ s = <<>>

\* const countryCode = qp.country || ""
countryCode == IF Falsy(qp.country) THEN <<>> ELSE qp.country

\* const timeSec = Number(qp.time || 0)
timeSec == IF Falsy(qp.time) THEN JsNum(0) ELSE StringToNumber(qp.time)

\* if (countryCode && timeSec > 0) run()
PreviewWanted_NonNegative == countryCode # <<>> /\ timeSec.t = "number" /\ timeSec.v >= 0

PreviewWanted == countryCode # <<>> /\ timeSec.t = "number" /\ timeSec.v > 0

\* ------------------------------------------------------------ form controls
NameInputs == {<<>>, <<" ">>, <<" ", "a", " ">>}
AgeInputs == {<<>>, <<"3", "0">>, <<"3">>, <<"a", "b">>}
GenderOptions == {"", "female"}

\* <input type="number">: text that is not a valid floating-point number is
\* sanitized to the empty string before onChange reads e.target.value
IsValidFloat(s) == AllDigits(s) \/ (s # <<>> /\ Head(s) = "-" /\ AllDigits(Tail(s)))

NumberInputValue(raw) == IF IsValidFloat(raw) THEN raw ELSE <<>>

\* <input required>: the control is invalid only when its value is empty
NameControlValid == form.name # <<>>

\* <input type="number" min={5} max={120}>: an empty value is valid
AgeControlValid ==
  form.age = <<>> \/
  (StringToNumber(form.age).t = "number" /\ StringToNumber(form.age).v >= 5
     /\ StringToNumber(form.age).v <= 120)

\* <Button type="submit" disabled={submitting}>
SubmitControlEnabled_NoDisable == TRUE

SubmitControlEnabled == ~submitting

\* ---------------------------------------------------------------- payload
\* age: form.age ? Number(form.age) : null
PayloadAge_NoBlankCheck(f) == StringToNumber(f.age)

PayloadAge(f) == IF f.age # <<>> THEN StringToNumber(f.age) ELSE JsNull

\* gender: form.gender || null
PayloadGender(f) ==
  IF f.gender # "" THEN [t |-> "string", s |-> f.gender] ELSE [t |-> "null", s |-> ""]

BuildPayload_CountryCode(q, f) ==
  [event |-> q.event, device |-> q.device,
   country |-> IF Falsy(q.country) THEN <<>> ELSE q.country, time |-> q.time,
   t |-> q.t, nonce |-> q.nonce, sig |-> q.sig,
   name |-> Trim(f.name), age |-> PayloadAge(f), gender |-> PayloadGender(f)]

BuildPayload(q, f) ==
  [event |-> q.event, device |-> q.device, country |-> q.country, time |-> q.time,
   t |-> q.t, nonce |-> q.nonce, sig |-> q.sig,
   name |-> Trim(f.name), age |-> PayloadAge(f), gender |-> PayloadGender(f)]

\* ------------------------------------------------------ backend responses
Row(n, ts, c, i) == [name |-> n, time_seconds |-> ts, country |-> c, id |-> i]
NoRow == Row("", 0, "", 0)
RowAnn == Row("Ann", 98, "US", 1)
RowBob == Row("Bob", 91, "US", 2)

MeNull == [kind |-> "null", row |-> NoRow]
MeUndefined == [kind |-> "undefined", row |-> NoRow]
MeRowOf(r) == [kind |-> "row", row |-> r]

Present(rows) == [present |-> TRUE, rows |-> rows]
Absent == [present |-> FALSE, rows |-> <<>>]

EmptyObject == [me |-> MeUndefined, leaderboard_country |-> Absent, leaderboard_global |-> Absent]

\* the objects a successful /register body parses to
RegisterData ==
  { [me |-> MeRowOf(RowAnn), leaderboard_country |-> Present(<<RowBob, RowAnn>>),
     leaderboard_global |-> Present(<<RowBob>>)],
    [me |-> MeRowOf(RowAnn), leaderboard_country |-> Absent,
     leaderboard_global |-> Present(<<RowAnn>>)],
    EmptyObject }

\* what res.json() yields: a SyntaxError, the JSON value null, or an object
RegisterJson ==
  {[kind |-> "malformed", data |-> EmptyObject], [kind |-> "null", data |-> EmptyObject]}
    \cup {[kind |-> "object", data |-> d] : d \in RegisterData}

\* what res.text() yields for a non-success response
ErrorBodies == {"", "duplicate entry"}

Err(n, m) == [name |-> n, message |-> m]
NetworkErrors == {Err("TypeError", "Failed to fetch"), Err("TypeError", "")}
JsonSyntaxError == Err("SyntaxError", "Unexpected token")
NullDataError == Err("TypeError", "Cannot read properties of null")

\* String(err) for an Error object
ErrorToString(err) ==
  IF err.message = "" THEN err.name ELSE err.name \o ": " \o err.message

\* err?.message || String(err)
ErrText_NoFallback(err) == err.message

ErrText(err) == IF err.message # "" THEN err.message ELSE ErrorToString(err)

\* throw new Error(msg || "Failed to register")
RegisterFailure_AlwaysGeneric(msg) == Err("Error", "Failed to register")

RegisterFailure(msg) == Err("Error", IF msg # "" THEN msg ELSE "Failed to register")

\* if (!res.ok) ... : the success branch is taken only for an ok response
TakesSuccessBranch_NoStatusCheck(ok) == TRUE

TakesSuccessBranch(ok) == ok

\* data.leaderboard_country || []
LeaderboardOrEmpty_Dropped(l) == <<>>

LeaderboardOrEmpty(l) == IF l.present THEN l.rows ELSE <<>>

\* the body of /rank_preview: malformed, JSON null, or an object whose rank
\* is a number, a string or missing
PreviewJson ==
  {[kind |-> "malformed", rank |-> JsUndefined], [kind |-> "null", rank |-> JsUndefined],
   [kind |-> "object", rank |-> JsNum(3)], [kind |-> "object", rank |-> JsStr],
   [kind |-> "object", rank |-> JsUndefined]}

\* typeof data.rank === "number"
RankIsNumber_Unchecked(rank) == TRUE

RankIsNumber(rank) == rank.t = "number"

\* !ignore
NotIgnored_Unchecked(e) == TRUE

NotIgnored(e) == ~e.ignore

NoResult == [kind |-> "none", ok |-> FALSE, text |-> "", data |-> EmptyObject]

\* ---------------------------------------------------------------- ordinal
\* const s = ["th", "st", "nd", "rd"], indexed from 0
OrdinalSuffixes == <<<<"t", "h">>, <<"s", "t">>, <<"n", "d">>, <<"r", "d">>>>

\* s[i]: an index outside the array reads undefined, which || skips; it is
\* the empty text here
SuffixAt(i) == IF i \in 0..3 THEN OrdinalSuffixes[i + 1] ELSE <<>>

\* a % b of JavaScript, whose sign is the sign of a
JsRem(a, b) == IF a >= 0 THEN a % b ELSE 0 - ((0 - a) % b)

DigitChar(k) ==
  CASE k = 0 -> "0" [] k = 1 -> "1" [] k = 2 -> "2" [] k = 3 -> "3"
    [] k = 4 -> "4" [] k = 5 -> "5" [] k = 6 -> "6" [] k = 7 -> "7"
    [] k = 8 -> "8" [] k = 9 -> "9"

\* String(n) for an integer n >= 0
RECURSIVE DecimalString(_)
DecimalString(n) ==
  IF n < 10 THEN <<DigitChar(n)>>
  ELSE DecimalString(n \div 10) \o <<DigitChar(n % 10)>>

\* return String(n) + (s[(v - 20) % 10] || s[v] || s[0]) with v = n % 100
ordinal_LastDigitOnly(n) ==
  LET v == JsRem(n, 100)
      a == SuffixAt(JsRem(v, 10))
  IN DecimalString(n) \o (IF a # <<>> THEN a ELSE SuffixAt(0))

ordinal(n) ==
  LET v == JsRem(n, 100)
      a == SuffixAt(JsRem(v - 20, 10))
      b == SuffixAt(v)
  IN DecimalString(n) \o (IF a # <<>> THEN a ELSE IF b # <<>> THEN b ELSE SuffixAt(0))

\* what is on screen: the Hero's estimated-rank text and, per leaderboard,
\* which rows carry the highlight class
NoView == [kind |-> "none", rank |-> <<>>, country |-> <<>>, global |-> <<>>]

\* {typeof rankPreview === "number" && <div>Estimated rank: {ordinal(rankPreview)}</div>}
HeroRankText(rp) == IF rp.t = "number" THEN ordinal(rp.v) ELSE <<>>

\* const isYou = !!highlight && highlight.name === r.name &&
\*   highlight.time_seconds === r.time_seconds && highlight.country === r.country
isYou_NoCountry(highlight, r) ==
  /\ highlight.kind = "row"
  /\ highlight.row.name = r.name
  /\ highlight.row.time_seconds = r.time_seconds

isYou(highlight, r) ==
  /\ highlight.kind = "row"
  /\ highlight.row.name = r.name
  /\ highlight.row.time_seconds = r.time_seconds
  /\ highlight.row.country = r.country

\* rows?.map((r, idx) => ... className={isYou ? "bg-lime-500/10" : ""})
TableHighlights(rows, highlight) ==
  [idx \in 1..Len(rows) |-> isYou(highlight, rows[idx])]

\* ------------------------------------------------------------------- Init
Init ==
  /\ qp \in QueryParams
  /\ step = "form"
  /\ submitting = FALSE
  /\ error = ""
  /\ rankPreview = JsNull
  /\ form = [name |-> <<>>, age |-> <<>>, gender |-> ""]
  /\ ageInput = <<>>
  /\ me = MeNull
  /\ lbCountry = <<>>
  /\ lbGlobal = <<>>
  /\ mounted = FALSE
  /\ effects = <<>>
  /\ regs = <<>>
  /\ sent = 0
  /\ lastResult = NoResult
  /\ view = NoView

RemoveAt(s, i) == SubSeq(s, 1, i - 1) \o SubSeq(s, i + 1, Len(s))

\* ------------------------------------------------- rank preview effect
\* the effect body: let ignore = false; if (countryCode && timeSec > 0) run()
EffectRun ==
  /\ ~mounted
  /\ Len(effects) < MaxEffectRuns
  /\ mounted' = TRUE
  /\ effects' = Append(effects, [ignore |-> FALSE,
                                 pc |-> IF PreviewWanted THEN "fetch" ELSE "none",
                                 outcome |-> "none"])
  /\ UNCHANGED <<view, qp, step, submitting, error, rankPreview, form, ageInput,
                 me, lbCountry, lbGlobal, regs, sent, lastResult>>

\* the effect's cleanup: ignore = true
EffectCleanup ==
  /\ mounted
  /\ mounted' = FALSE
  /\ effects' = [effects EXCEPT ![Len(effects)].ignore = TRUE]
  /\ UNCHANGED <<view, qp, step, submitting, error, rankPreview, form, ageInput,
                 me, lbCountry, lbGlobal, regs, sent, lastResult>>

\* await fetch(url) settles: rejected, or a response with res.ok
PreviewFetchResolve(i, rejected, ok) ==
  /\ effects[i].pc = "fetch"
  /\ effects' = [effects EXCEPT
                   ![i].pc = IF ~rejected /\ ok THEN "json" ELSE "done",
                   ![i].outcome = IF rejected \/ ~ok THEN "failed" ELSE "none"]
  /\ UNCHANGED <<view, qp, step, submitting, error, rankPreview, form, ageInput,
                 me, lbCountry, lbGlobal, mounted, regs, sent, lastResult>>

\* await res.json() settles; if (!ignore && typeof data.rank === "number")
PreviewJsonResolve(i, body) ==
  /\ effects[i].pc = "json"
  /\ LET writes == body.kind = "object" /\ NotIgnored(effects[i]) /\ RankIsNumber(body.rank)
     IN /\ rankPreview' = IF writes THEN body.rank ELSE rankPreview
        /\ effects' = [effects EXCEPT
                         ![i].pc = "done",
                         ![i].outcome =
                            IF writes THEN "set"
                            ELSE IF body.kind = "object" /\ body.rank.t = "number"
                              THEN "ignored"
                            ELSE "failed"]
  /\ UNCHANGED <<view, qp, step, submitting, error, form, ageInput,
                 me, lbCountry, lbGlobal, mounted, regs, sent, lastResult>>

\* ------------------------------------------------------------- form edits
\* the form is rendered only while step === "form"
FormRendered == mounted /\ step = "form"

\* onChange={(e) => setForm({ ...form, name: e.target.value })}
ChangeName(v) ==
  /\ FormRendered
  /\ form' = [form EXCEPT !.name = v]
  /\ UNCHANGED <<view, qp, step, submitting, error, rankPreview, ageInput,
                 me, lbCountry, lbGlobal, mounted, effects, regs, sent, lastResult>>

\* onChange={(e) => setForm({ ...form, age: e.target.value })}
ChangeAge(raw) ==
  /\ FormRendered
  /\ ageInput' = raw
  /\ form' = [form EXCEPT !.age = NumberInputValue(raw)]
  /\ UNCHANGED <<view, qp, step, submitting, error, rankPreview,
                 me, lbCountry, lbGlobal, mounted, effects, regs, sent, lastResult>>

\* onChange={(e) => setForm({ ...form, gender: e.target.value })}
ChangeGender(v) ==
  /\ FormRendered
  /\ form' = [form EXCEPT !.gender = v]
  /\ UNCHANGED <<view, qp, step, submitting, error, rankPreview, ageInput,
                 me, lbCountry, lbGlobal, mounted, effects, regs, sent, lastResult>>

\* --------------------------------------------------------------- onSubmit
\* the submit event: the enabled submit button of a valid, rendered form,
\* then onSubmit up to its first await.  Whether a browser also refuses to
\* submit while the age control holds unparseable text is left open: the
\* model allows the submission, with the sanitized (empty) value.
\* setError("") at the start of onSubmit
ErrorAtSubmit_Kept == error

ErrorAtSubmit == ""

Submit ==
  /\ FormRendered
  /\ SubmitControlEnabled
  /\ NameControlValid
  /\ AgeControlValid
  /\ sent < MaxSubmits
  /\ submitting' = TRUE
  /\ error' = ErrorAtSubmit
  /\ regs' = Append(regs, [pc |-> "fetch", ok |-> FALSE, payload |-> BuildPayload(qp, form)])
  /\ sent' = sent + 1
  /\ UNCHANGED <<view, qp, step, rankPreview, form, ageInput,
                 me, lbCountry, lbGlobal, mounted, effects, lastResult>>

\* catch (err) { setError(err?.message || String(err)) } finally { setSubmitting(false) }
CatchFinally(i, err, result) ==
  /\ error' = ErrText(err)
  /\ submitting' = FALSE
  /\ regs' = RemoveAt(regs, i)
  /\ lastResult' = result
  /\ UNCHANGED <<view, qp, step, rankPreview, form, ageInput,
                 me, lbCountry, lbGlobal, mounted, effects, sent>>

\* await fetch(register) rejects
RegisterFetchReject(i, err) ==
  /\ regs[i].pc = "fetch"
  /\ CatchFinally(i, err, [kind |-> "network", ok |-> FALSE, text |-> "", data |-> EmptyObject])

\* await fetch(register) resolves with a response; if (!res.ok) read its text
RegisterFetchResolve(i, ok) ==
  /\ regs[i].pc = "fetch"
  /\ regs' = [regs EXCEPT ![i].pc = IF TakesSuccessBranch(ok) THEN "json" ELSE "text",
                          ![i].ok = ok]
  /\ UNCHANGED <<view, qp, step, submitting, error, rankPreview, form, ageInput,
                 me, lbCountry, lbGlobal, mounted, effects, sent, lastResult>>

\* await res.text() resolves: throw new Error(msg || "Failed to register")
RegisterTextResolve(i, msg) ==
  /\ regs[i].pc = "text"
  /\ CatchFinally(i, RegisterFailure(msg),
                  [kind |-> "http", ok |-> regs[i].ok, text |-> msg, data |-> EmptyObject])

\* await res.text() rejects
RegisterTextReject(i, err) ==
  /\ regs[i].pc = "text"
  /\ CatchFinally(i, err, [kind |-> "text_error", ok |-> regs[i].ok, text |-> "",
                           data |-> EmptyObject])

\* await res.json() settles: a SyntaxError, a TypeError on null data, or
\* setMe, setLbCountry, setLbGlobal, setStep and the finally block
RegisterJsonResolve(i, body) ==
  /\ regs[i].pc = "json"
  /\ IF body.kind = "malformed"
       THEN CatchFinally(i, JsonSyntaxError,
                         [kind |-> "json_error", ok |-> regs[i].ok, text |-> "",
                          data |-> EmptyObject])
     ELSE IF body.kind = "null"
       THEN CatchFinally(i, NullDataError,
                         [kind |-> "type_error", ok |-> regs[i].ok, text |-> "",
                          data |-> EmptyObject])
     ELSE /\ me' = body.data.me
          /\ lbCountry' = LeaderboardOrEmpty(body.data.leaderboard_country)
          /\ lbGlobal' = LeaderboardOrEmpty(body.data.leaderboard_global)
          /\ step' = "leaderboards"
          /\ submitting' = FALSE
          /\ regs' = RemoveAt(regs, i)
          /\ lastResult' = [kind |-> "success", ok |-> regs[i].ok, text |-> "",
                            data |-> body.data]
          /\ UNCHANGED <<view, qp, error, rankPreview, form, ageInput, mounted, effects, sent>>

\* ------------------------------------------------------------------- Next
Next ==
  \/ EffectRun
  \/ EffectCleanup
  \/ \E i \in DOMAIN effects, rejected \in BOOLEAN, ok \in BOOLEAN :
       PreviewFetchResolve(i, rejected, ok)
  \/ \E i \in DOMAIN effects, body \in PreviewJson : PreviewJsonResolve(i, body)
  \/ \E v \in NameInputs : ChangeName(v)
  \/ \E raw \in AgeInputs : ChangeAge(raw)
  \/ \E v \in GenderOptions : ChangeGender(v)
  \/ Submit
  \/ \E i \in DOMAIN regs, err \in NetworkErrors : RegisterFetchReject(i, err)
  \/ \E i \in DOMAIN regs, ok \in BOOLEAN : RegisterFetchResolve(i, ok)
  \/ \E i \in DOMAIN regs, msg \in ErrorBodies : RegisterTextResolve(i, msg)
  \/ \E i \in DOMAIN regs, err \in NetworkErrors : RegisterTextReject(i, err)
  \/ \E i \in DOMAIN regs, body \in RegisterJson : RegisterJsonResolve(i, body)

Spec == Init /\ [][Next]_vars

\* ---------------------------------------------------------------- claims
\* a register request left the in-flight list in this step
RegisterSettles == Len(regs') < Len(regs)

FailureKinds == {"network", "http", "text_error", "json_error", "type_error"}

\* C1: the step starts as "form"; it changes only from "form" to
\* "leaderboards", and only in the step in which the JSON body of a register
\* response with a success status has been parsed; nothing sets it back.
C1_StepOneWay ==
  /\ step = "form"
  /\ [][step' # step =>
          /\ step = "form"
          /\ step' = "leaderboards"
          /\ RegisterSettles
          /\ \E i \in DOMAIN regs : regs[i].pc = "json" /\ regs[i].ok
          /\ lastResult'.kind = "success"
          /\ lastResult'.ok]_vars

C1_Witness ==
  step = "leaderboards" /\ lastResult.kind = "success" /\ lastResult.ok /\ regs = <<>>

\* C2: at most one register request is in flight, and while one is in
\* flight submitting is true, so the submit control is disabled.
C2_OneInFlight ==
  /\ Len(regs) <= 1
  /\ (regs # <<>> => submitting /\ ~SubmitControlEnabled)

C2_Witness == Len(regs) = 1 /\ submitting /\ sent = 2 /\ regs[1].pc = "json"

\* C3: me, lbCountry and lbGlobal keep their initial values while the step
\* is "form"; a register request that settles successfully writes all three
\* from the parsed body in one step, nothing else writes any of them, and a
\* request that settles with a failure leaves all three unchanged.
C3_NoPartialSuccess ==
  /\ [](step = "form" => me = MeNull /\ lbCountry = <<>> /\ lbGlobal = <<>>)
  /\ [][/\ (me' # me \/ lbCountry' # lbCountry \/ lbGlobal' # lbGlobal)
             => RegisterSettles /\ lastResult'.kind = "success" /\ lastResult'.ok
        /\ (RegisterSettles /\ lastResult'.kind = "success")
             => LET d == lastResult'.data IN
                  /\ me' = d.me
                  /\ lbCountry' = IF d.leaderboard_country.present
                                    THEN d.leaderboard_country.rows ELSE <<>>
                  /\ lbGlobal' = IF d.leaderboard_global.present
                                   THEN d.leaderboard_global.rows ELSE <<>>
                  /\ step' = "leaderboards"
        /\ (RegisterSettles /\ lastResult'.kind \in FailureKinds)
             => UNCHANGED <<me, lbCountry, lbGlobal>>]_vars

C3_Witness ==
  /\ step = "leaderboards" /\ sent = 2
  /\ me = MeRowOf(RowAnn) /\ lbCountry = <<RowBob, RowAnn>> /\ lbGlobal = <<RowBob>>

\* C4: when a register response with a non-success status has its body
\* read, the error becomes that body text, or "Failed to register" when the
\* text is empty, the step stays "form" and submitting is false again.
C4_HttpErrorShown ==
  [][(RegisterSettles /\ lastResult'.kind = "http") =>
        /\ ~lastResult'.ok
        /\ error' = IF lastResult'.text = "" THEN "Failed to register"
                    ELSE lastResult'.text
        /\ step' = "form"
        /\ submitting' = FALSE]_vars

C4_Witness ==
  /\ lastResult.kind = "http" /\ lastResult.text = "duplicate entry"
  /\ error = "duplicate entry" /\ step = "form" /\ ~submitting

\* C5: a register request that settles with any failure leaves a non-empty
\* error, the step "form" and submitting false, and issues no new request.
C5_FailureCaught ==
  [][(RegisterSettles /\ lastResult'.kind \in FailureKinds) =>
        /\ error' # ""
        /\ step' = "form"
        /\ submitting' = FALSE
        /\ Len(regs') = Len(regs) - 1
        /\ sent' = sent
        /\ Len(effects') = Len(effects)]_vars

C5_Witness ==
  /\ lastResult.kind = "json_error" /\ error = "Unexpected token"
  /\ step = "form" /\ ~submitting /\ regs = <<>>

\* C6: no register request carries a name that is empty after trimming.
C6_NoBlankName ==
  \A i \in DOMAIN regs : regs[i].payload.name # <<>>

\* C7: rankPreview is written only in the step in which the JSON of a
\* preview response is read by an effect instance whose ignore flag is
\* false, and that instance is the latest one, not yet cleaned up.
C7_StaleIgnored ==
  [][/\ rankPreview' # rankPreview =>
          \E i \in DOMAIN effects :
            effects[i].outcome # "set" /\ effects'[i].outcome = "set"
     /\ \A i \in DOMAIN effects :
          (effects[i].outcome # "set" /\ effects'[i].outcome = "set") =>
             /\ effects[i].pc = "json"
             /\ ~effects[i].ignore
             /\ i = Len(effects)
             /\ mounted]_vars

C7_Witness ==
  \E i \in DOMAIN effects :
    effects[i].ignore /\ effects[i].outcome = "ignored" /\ rankPreview = JsNull

\* C8: an effect run issues the rank_preview request exactly when the
\* country is present and non-empty and the time is a positive number.
C8_PreviewIff ==
  \A i \in DOMAIN effects :
    /\ (qp.country \in {Undefined, <<>>}
          \/ qp.time \in {Undefined, <<>>, <<"0">>, <<"-", "5">>, <<"a", "b">>})
         => effects[i].pc = "none"
    /\ (qp.country = <<"U", "S">> /\ qp.time = <<"1", "2">>)
         => effects[i].pc # "none"

C8_Witness ==
  /\ effects # <<>> /\ effects[1].pc = "none"
  /\ qp.country = <<"U", "S">> /\ qp.time = <<"-", "5">>

\* C9: rankPreview is null unless some preview response set it to a number;
\* a preview fetch that fails (rejected, non-success status, malformed
\* body, body without a numeric rank) changes neither rankPreview, error,
\* step, submitting nor the form, and issues no request.
C9_PreviewFailureSwallowed ==
  /\ [](\/ rankPreview = JsNull
        \/ /\ rankPreview.t = "number"
           /\ \E i \in DOMAIN effects : effects[i].outcome = "set")
  /\ [][(\E i \in DOMAIN effects :
           effects[i].outcome # "failed" /\ effects'[i].outcome = "failed") =>
          /\ UNCHANGED <<rankPreview, error, step, submitting, form, ageInput>>
          /\ Len(effects') = Len(effects)
          /\ \A j \in DOMAIN effects :
               effects'[j].pc = "fetch" => effects[j].pc = "fetch"
          /\ regs' = regs]_vars

C9_Witness ==
  /\ rankPreview = JsNull /\ error = "" /\ mounted
  /\ \E i \in DOMAIN effects :
       effects[i].pc = "done" /\ effects[i].outcome = "failed" /\ ~effects[i].ignore

\* C10: the age of a register payload is a number or null; a blank or
\* non-numeric age text gives null, and a numeric one gives its value.
C10_AgeNumberOrNull ==
  [][Len(regs') > Len(regs) =>
        LET a == regs'[Len(regs')].payload.age IN
          /\ a.t \in {"number", "null"}
          /\ ageInput \in {<<>>, <<"a", "b">>} => a = JsNull
          /\ ageInput = <<"3", "0">> => a = JsNum(30)]_vars

C10_Witness ==
  \E i \in DOMAIN regs :
    regs[i].payload.age = JsNull /\ ageInput = <<"a", "b">> /\ form.age = <<>>

\* C13: the query parameters never change, every register payload carries
\* event, device, country, time, t, nonce and sig exactly as they are in the
\* query parameters, and name, age and gender come from the form as it is at
\* the submit: the trimmed name, the age or null, the gender or null.
C13_PayloadFields ==
  /\ [](\A i \in DOMAIN regs :
          LET p == regs[i].payload IN
            /\ p.event = qp.event /\ p.device = qp.device
            /\ p.country = qp.country /\ p.time = qp.time
            /\ p.t = qp.t /\ p.nonce = qp.nonce /\ p.sig = qp.sig)
  /\ [][/\ qp' = qp
        /\ Len(regs') > Len(regs) =>
             LET p == regs'[Len(regs')].payload IN
               /\ form.name = <<" ", "a", " ">> => p.name = <<"a">>
               /\ form.name = <<" ">> => p.name = <<>>
               /\ form.age = <<>> => p.age = JsNull
               /\ form.age = <<"3", "0">> => p.age = JsNum(30)
               /\ form.gender = "" => p.gender.t = "null"
               /\ form.gender = "female" =>
                    (p.gender.t = "string" /\ p.gender.s = "female")]_vars

C13_Witness ==
  /\ sent = 2
  /\ lastResult.kind \in FailureKinds
  /\ qp.country = Undefined
  /\ form.gender = ""
  /\ \E i \in DOMAIN regs :
       LET p == regs[i].payload IN
         /\ p.country = Undefined /\ p.sig = "s1" /\ p.event = "e1"
         /\ p.name = <<"a">> /\ p.gender.t = "string" /\ p.age = JsNum(30)

\* C14: while a register request is in flight the error is empty, and on
\* the leaderboards step the error is empty, also after earlier failures.
C14_ErrorCleared ==
  /\ regs # <<>> => error = ""
  /\ step = "leaderboards" => error = ""

C14_Witness ==
  /\ step = "leaderboards" /\ error = "" /\ sent = 2 /\ lastResult.kind = "success"

\* ------------------------------------------------------------ Hero render
\* the form step on screen with a rank preview the backend has answered, or
\* none
InitHero ==
  /\ qp = [event |-> "e1", device |-> "d1", country |-> <<"U", "S">>,
           time |-> <<"1", "2">>, t |-> "t1", nonce |-> "n1", sig |-> "s1"]
  /\ step = "form"
  /\ submitting = FALSE
  /\ error = ""
  /\ rankPreview \in {JsNull} \cup {JsNum(n) : n \in 1..MaxRank}
  /\ form = [name |-> <<>>, age |-> <<>>, gender |-> ""]
  /\ ageInput = <<>>
  /\ me = MeNull
  /\ lbCountry = <<>>
  /\ lbGlobal = <<>>
  /\ mounted = TRUE
  /\ effects = <<[ignore |-> FALSE, pc |-> "done",
                  outcome |-> IF rankPreview = JsNull THEN "failed" ELSE "set"]>>
  /\ regs = <<>>
  /\ sent = 0
  /\ lastResult = NoResult
  /\ view = NoView

\* {step === "form" && <Hero ... rankPreview={rankPreview ?? undefined} />}
RenderHero ==
  /\ step = "form"
  /\ view.kind # "hero"
  /\ view' = [kind |-> "hero", rank |-> HeroRankText(rankPreview),
              country |-> <<>>, global |-> <<>>]
  /\ UNCHANGED <<qp, step, submitting, error, rankPreview, form, ageInput,
                 me, lbCountry, lbGlobal, mounted, effects, regs, sent, lastResult>>

NextHero == RenderHero

SpecHero == InitHero /\ [][NextHero]_vars

\* C11: for every n >= 1 the ordinal text is the decimal digits of n followed
\* by "st" when n mod 10 = 1 and n mod 100 # 11, "nd" when n mod 10 = 2 and
\* n mod 100 # 12, "rd" when n mod 10 = 3 and n mod 100 # 13, else "th".
C11_Ordinal ==
  (view.kind = "hero" /\ rankPreview.t = "number") =>
    LET n == rankPreview.v
        k == Len(view.rank) - 2
        digits == SubSeq(view.rank, 1, k)
        suffix == SubSeq(view.rank, k + 1, k + 2)
    IN /\ n >= 1
       /\ k >= 1
       /\ AllDigits(digits)
       /\ (k > 1 => digits[1] # "0")
       /\ DecimalValue(digits) = n
       /\ suffix = (IF n % 10 = 1 /\ n % 100 # 11 THEN <<"s", "t">>
                    ELSE IF n % 10 = 2 /\ n % 100 # 12 THEN <<"n", "d">>
                    ELSE IF n % 10 = 3 /\ n % 100 # 13 THEN <<"r", "d">>
                    ELSE <<"t", "h">>)

C11_Witness ==
  /\ rankPreview = JsNum(112)
  /\ view.kind = "hero"
  /\ view.rank = <<"1", "1", "2", "t", "h">>

\* ----------------------------------------------------- leaderboard render
\* the rows a backend may return: two names, times, countries and ids
BackendRows ==
  {Row(n, ts, c, i) : n \in {"Ann", "Bob"}, ts \in {98, 91}, c \in {"US", "IS"},
                      i \in {1, 2}}

RowLists(len) == UNION {[1..k -> BackendRows] : k \in 0..len}

\* data.me: null, missing, or a row
BackendMe ==
  {MeNull, MeUndefined} \cup {MeRowOf(r) : r \in {x \in BackendRows : x.id = 1}}

\* the leaderboards step on screen after one successful registration
InitTable ==
  /\ qp = [event |-> "e1", device |-> "d1", country |-> <<"U", "S">>,
           time |-> <<"1", "2">>, t |-> "t1", nonce |-> "n1", sig |-> "s1"]
  /\ step = "leaderboards"
  /\ submitting = FALSE
  /\ error = ""
  /\ rankPreview = JsNull
  /\ form = [name |-> <<" ", "a", " ">>, age |-> <<>>, gender |-> ""]
  /\ ageInput = <<>>
  /\ me \in BackendMe
  /\ lbCountry \in RowLists(MaxRows)
  /\ lbGlobal \in RowLists(1)
  /\ mounted = TRUE
  /\ effects = <<[ignore |-> FALSE, pc |-> "done", outcome |-> "failed"]>>
  /\ regs = <<>>
  /\ sent = 1
  /\ lastResult = [kind |-> "success", ok |-> TRUE, text |-> "",
                   data |-> [me |-> me, leaderboard_country |-> Present(lbCountry),
                             leaderboard_global |-> Present(lbGlobal)]]
  /\ view = NoView

\* {step === "leaderboards" && ... <Table rows={lbCountry} highlight={me} />
\*                                 <Table rows={lbGlobal} highlight={me} />}
RenderLeaderboards ==
  /\ step = "leaderboards"
  /\ view.kind # "leaderboards"
  /\ view' = [kind |-> "leaderboards", rank |-> <<>>,
              country |-> TableHighlights(lbCountry, me),
              global |-> TableHighlights(lbGlobal, me)]
  /\ UNCHANGED <<qp, step, submitting, error, rankPreview, form, ageInput,
                 me, lbCountry, lbGlobal, mounted, effects, regs, sent, lastResult>>

NextTable == RenderLeaderboards

SpecTable == InitTable /\ [][NextTable]_vars

\* a row has the name, time and country of the me record
SameTriple(m, r) ==
  m.row.name = r.name /\ m.row.time_seconds = r.time_seconds /\ m.row.country = r.country

\* C12: in each rendered leaderboard a row is highlighted exactly when a me
\* row is present and the row's name, time_seconds and country equal its;
\* id and position play no part, and nothing is highlighted without a me row.
C12_Highlight ==
  view.kind = "leaderboards" =>
    /\ Len(view.country) = Len(lbCountry)
    /\ Len(view.global) = Len(lbGlobal)
    /\ \A idx \in DOMAIN lbCountry :
         view.country[idx] <=> (me.kind = "row" /\ SameTriple(me, lbCountry[idx]))
    /\ \A idx \in DOMAIN lbGlobal :
         view.global[idx] <=> (me.kind = "row" /\ SameTriple(me, lbGlobal[idx]))
    /\ me.kind # "row" =>
         /\ \A idx \in DOMAIN lbCountry : ~view.country[idx]
         /\ \A idx \in DOMAIN lbGlobal : ~view.global[idx]

C12_Witness ==
  /\ view.kind = "leaderboards"
  /\ Len(lbCountry) = 2
  /\ view.country = <<TRUE, TRUE>>
  /\ lbCountry[1].id # me.row.id
  /\ lbCountry[2].id = me.row.id
  /\ view.global = <<FALSE>>

====
